---------------------------- MODULE Spec2Model ----------------------------
(***************************************************************************)
(* A model of circuits.net.sockets (src/circuits/net/sockets.py): the      *)
(* stream Client (TCPClient, UNIXClient) and the stream Server, driven by  *)
(* an external poller and by the application.                              *)
(*                                                                         *)
(* Every method of the source is an operator from a state record to a      *)
(* state record, named as in the source (Client__close is Client._close,   *)
(* Client_close is Client.close, Client_on_write is Client.__on_write).    *)
(* What the operating system answers to connect, send, recv and accept is  *)
(* an input of the action, drawn from the outcomes the call can have.      *)
(* The model fixes secure = False: the TLS branches of _read, _write,      *)
(* connect and _accept are not taken.                                      *)
(***************************************************************************)
EXTENDS Integers, Sequences, FiniteSets, TLC

(***************************************************************************)
(* Bounds of the model.                                                    *)
(***************************************************************************)
\* the longest chunk the application writes
MaxChunkLen == 2
\* the most chunks waiting in the write buffers of an endpoint when write is
\* called
MaxQueue == 2
\* the most bytes the application writes to the sockets of an endpoint
MaxStream == 3
\* the sockets a client creates after its first one (TCPClient.connect)
MaxSocks == 1
\* the most connections a server accepts
MaxHandles == 1
\* the most connections accepted by the server whose OS calls do not fail
MaxPeers == 2
\* the most datagrams the application writes to a UDPServer
MaxDgrams == 3
\* the most bytes one end of a Pipe is given to write
MaxPipeStream == 2
\* the bytes the socket pair holds in one direction
PipeCap == 2
\* the clock runs from 0 to MaxTime
MaxTime == 4
\* the longest interval, in seconds, a Timer is given
MaxInterval == 2
\* the most times a Timer fires
MaxFires == 3

\* The application writes a stream whose i-th byte is the number i, so that a
\* byte lost, repeated or out of place shows.  Chunk(w, n) is the chunk of n
\* bytes written after w bytes (the empty chunk included: write(b"")).
Chunk(w, n) == [i \in 1..n |-> w + i]

\* the stream of the first w bytes written
Stream(w) == [i \in 1..w |-> i]

\* what a successful recv returns when the peer has sent something
RecvData == {<<"a">>}

RECURSIVE Flatten(_)
\* the bytes of a buffer, in the order the buffer holds them
Flatten(buf) ==
    IF buf = <<>> THEN <<>> ELSE Head(buf) \o Flatten(Tail(buf))

(***************************************************************************)
(* errno (sockets.py:13-15).  EWOULDBLOCK and EAGAIN are the same number   *)
(* on the platforms where errno.h defines one as the other.                *)
(***************************************************************************)
EWOULDBLOCK == "EWOULDBLOCK"
EAGAIN == EWOULDBLOCK
EINTR == "EINTR"
EPIPE == "EPIPE"
ENOTCONN == "ENOTCONN"
EBADF == "EBADF"
EINVAL == "EINVAL"
EISCONN == "EISCONN"
EINPROGRESS == "EINPROGRESS"
EALREADY == "EALREADY"
ENOBUFS == "ENOBUFS"
EPERM == "EPERM"
EMFILE == "EMFILE"
ENFILE == "ENFILE"
ENOMEM == "ENOMEM"
ECONNABORTED == "ECONNABORTED"
\* two errors the source names nowhere: they fall in its else branches
ECONNRESET == "ECONNRESET"
ECONNREFUSED == "ECONNREFUSED"

VARIABLES
    kind,         \* the endpoint: "TCPClient", "UNIXClient", "Server", "ServerMany",
                  \* "UDPServer", "UDPServerShort", "Pipe" (its two ends) or
                  \* "Timer"
    os_open,      \* the sockets that are open (not yet closed) at the OS
    p_readers,    \* the poller: sockets registered for read-readiness
    p_writers,    \* the poller: sockets registered for write-readiness
    q_readers,    \* the sockets that are or have been registered for reading:
                  \* a _read event for them may be in the event queue
    q_writers,    \* the same for writing and _write events
    fired,        \* the events the last handler fired, in order
    rmlog,        \* the removeWriter calls of the last handler
    op,           \* the last operation: its name, the socket it was for, what the
                  \* OS call in it did (res), whether an exception left the handler (exc),
                  \* the sockets whose shutdown(2) raised in it (shuterr)
    c_poller,     \* Client._poller: "none" or "poller"
    c_sock,       \* Client._sock
    c_connected,  \* Client._connected
    c_buffer,     \* Client._buffer
    c_closeflag,  \* Client._closeflag
    c_sent,       \* history: the bytes the socket has accepted, in order
    c_written,    \* history: the bytes given to write, in order
    c_envok,      \* history: no send or recv has failed, no _disconnect came
    s_poller,     \* Server._poller: "none" or "poller"
    s_sock,       \* Server._sock: the listening socket, or None
    s_clients,    \* Server._clients
    s_closeq,     \* Server._closeq
    s_buffers,    \* Server._buffers: a defaultdict, its keys are its DOMAIN
    s_accepted,   \* the number of connections accepted: they are 1..s_accepted
    s_sent,       \* history, for each handle: the bytes its socket has accepted
    s_written,    \* history, for each handle: the bytes given to write
    s_envok,      \* history, for each handle: no send or recv on it has failed,
                  \* no _disconnect came for it
    u_calls,      \* history of a UDPServer: the sendto calls made, as pairs
                  \* <<address, data>>, in order
    u_written,    \* history of a UDPServer: the pairs <<address, data>> given to write
    u_envok,      \* history of a UDPServer: _close has dropped no queued datagram
    ends,         \* the two UNIXClients of a Pipe: end e has the socket e, and
                  \* ends[e] holds its _poller, _connected, _buffer, _closeflag
                  \* and, as history, the number of bytes given to its write
    wire,         \* the socket pair: wire[e] is the bytes on their way to end e
    now,          \* the clock: what time() returns
    timer         \* a Timer: its expiry, interval and persist, whether it is
                  \* registered and whether unregister is pending; as history
                  \* the time it was set (created or reset) and the times it fired

envvars == <<kind, os_open, p_readers, p_writers, q_readers, q_writers, fired, rmlog, op>>
cvars == <<c_poller, c_sock, c_connected, c_buffer, c_closeflag,
           c_sent, c_written, c_envok>>
svars == <<s_poller, s_sock, s_clients, s_closeq, s_buffers, s_accepted,
           s_sent, s_written, s_envok, u_calls, u_written, u_envok>>
pvars == <<ends, wire>>
tvars == <<now, timer>>
vars == <<envvars, cvars, svars, pvars, tvars>>

(***************************************************************************)
(* The poller's interface (spec section 6): the endpoint calls these.      *)
(* s is a state record with the fields readers and writers.                *)
(***************************************************************************)
addReader(s, k) == [s EXCEPT !.readers = @ \cup {k}]

addWriter(s, k) == [s EXCEPT !.writers = @ \cup {k}]

isWriting(s, k) == k \in s.writers

removeWriter(s, k) ==
    [s EXCEPT !.writers = @ \ {k},
              !.rmlog = Append(@, <<k, k \in s.writers>>)]

discard(s, k) == [s EXCEPT !.readers = @ \ {k}, !.writers = @ \ {k}]

\* self._poller = ...: the endpoint takes a poller, the registered component, the
\* one findcmp found or a Poller() of its own (how); the poller it takes holds
\* the registrations the state record carries
SetPoller(s, how) == [s EXCEPT !.poller = "poller", !.how = how]

\* Component.fire
fire(s, e) == [s EXCEPT !.fired = Append(@, e)]

\* try: sock.shutdown(2); sock.close(); except SocketError: pass.  When
\* shutdown raises (k is in shutfail) close is not reached and k stays open.
SockClose(s, k) ==
    [s EXCEPT !.shut = @ \cup {k},
              !.open = IF k \in s.shutfail THEN @ ELSE @ \ {k}]

\* the handler runs with shutdown(2) failing on the sockets of bad
WithShutdown(s, bad) == [s EXCEPT !.shutfail = bad]

(***************************************************************************)
(* Client                                                                  *)
(***************************************************************************)
\* history: the socket has accepted these bytes (kept while c_envok)
Sent(s, bytes) == IF s.envok THEN [s EXCEPT !.sent = @ \o bytes] ELSE s

\* history: the application has written these bytes
Written(s, bytes) == IF s.envok THEN [s EXCEPT !.written = @ \o bytes] ELSE s

\* history: the run leaves the case of full and partial sends (a send or a recv
\* fails, a _disconnect comes); the history is kept no longer
Failed(s, failed) ==
    IF failed THEN [s EXCEPT !.envok = FALSE, !.sent = <<>>, !.written = <<>>] ELSE s

Client__close(s) ==
    IF ~s.connected THEN s
    ELSE fire(SockClose([discard(s, s.sock) EXCEPT !.buffer = <<>>,
                                                   !.closeflag = FALSE,
                                                   !.connected = FALSE],
                        s.sock),
              <<"Disconnected">>)

\* close that does not look at the buffer
Client_close_now(s) == Client__close(s)

Client_close(s) ==
    IF s.buffer = <<>> THEN Client__close(s)
    ELSE IF ~s.closeflag THEN [s EXCEPT !.closeflag = TRUE]
    ELSE s

\* _read that closes at once when recv gives no bytes
Client__read_force(s, r) ==
    IF r[1] = "data" THEN fire(s, <<"Read", r[2]>>)
    ELSE IF r[1] = "eof" THEN Client__close(s)
    ELSE IF r[2] = EWOULDBLOCK THEN s
    ELSE Client__close(fire(s, <<"Error", r[2]>>))

\* r is what recv did: <<"data", d>>, <<"eof">> (an empty result) or <<"err", e>>
Client__read(s, r) ==
    IF r[1] = "data" THEN fire(s, <<"Read", r[2]>>)
    ELSE IF r[1] = "eof" THEN Client_close(s)
    ELSE IF r[2] = EWOULDBLOCK THEN s
    ELSE Client__close(fire(s, <<"Error", r[2]>>))

\* _write with the unsent rest of a chunk put behind the waiting chunks
Client__write_tail(s, data, r) ==
    IF r[1] = "ok"
    THEN LET t == Sent(s, SubSeq(data, 1, r[2]))
         IN  IF r[2] < Len(data)
             THEN [t EXCEPT !.buffer = Append(@, SubSeq(data, r[2] + 1, Len(data)))]
             ELSE t
    ELSE IF r[2] \in {EPIPE, ENOTCONN} THEN Client__close(s)
    ELSE fire(s, <<"Error", r[2]>>)

\* r is what send did: <<"ok", nbytes>> or <<"err", e>>
Client__write(s, data, r) ==
    IF r[1] = "ok"
    THEN LET t == Sent(s, SubSeq(data, 1, r[2]))
         IN  IF r[2] < Len(data)
             THEN [t EXCEPT !.buffer = <<SubSeq(data, r[2] + 1, Len(data))>> \o @]
             ELSE t
    ELSE IF r[2] \in {EPIPE, ENOTCONN} THEN Client__close(s)
    ELSE fire(s, <<"Error", r[2]>>)

Client_write(s, data) ==
    LET t == IF ~isWriting(s, s.sock) THEN addWriter(s, s.sock) ELSE s
    IN  [t EXCEPT !.buffer = Append(@, data)]

Client_on_disconnect(s) == Client__close(s)

Client_on_read(s, r) == Client__read(s, r)

Client_on_write(s, r) ==
    LET t == IF s.buffer # <<>>
             THEN Client__write([s EXCEPT !.buffer = Tail(@)], Head(s.buffer), r)
             ELSE s
    IN  IF t.buffer = <<>>
        THEN IF t.closeflag THEN Client__close(t)
             ELSE IF isWriting(t, t.sock) THEN removeWriter(t, t.sock)
             ELSE t
        ELSE t

\* the codes a connect may answer and still be on its way
ConnectProvisional == {EISCONN, EWOULDBLOCK, EINPROGRESS, EALREADY}

\* the lines both connect methods share, without the return after Error
ConnectResult_noreturn(s, r) ==
    LET t == IF r # "ok" /\ r \notin ConnectProvisional
             THEN fire(s, <<"Error", r>>) ELSE s
    IN  fire(addReader([t EXCEPT !.connected = TRUE], t.sock), <<"Connected">>)

\* the lines both connect methods share: r is "ok" (a false r) or an errno
ConnectResult(s, r) ==
    IF r # "ok" /\ r \notin ConnectProvisional
    THEN fire(s, <<"Error", r>>)
    ELSE fire(addReader([s EXCEPT !.connected = TRUE], s.sock), <<"Connected">>)

\* r1 is what sock.connect did, r2 what connect_ex did on the socket created
\* after EBADF or EINVAL
TCPClient_connect(s, r1, r2) ==
    IF r1 \in {EBADF, EINVAL}
    THEN ConnectResult([s EXCEPT !.sock = @ + 1, !.open = @ \cup {s.sock + 1}], r2)
    ELSE ConnectResult(s, r1)

UNIXClient_connect(s, r) == ConnectResult(s, r)

\* comp: the registered component is a poller; found: findcmp finds one
Client_on_registered(s, comp, found) ==
    IF s.poller # "none" THEN s
    ELSE IF comp THEN fire(SetPoller(s, "component"), <<"Ready">>)
    ELSE IF found THEN fire(SetPoller(s, "found"), <<"Ready">>)
    ELSE fire(SetPoller(s, "default"), <<"Ready">>)

UNIXClient_on_registered(s, comp, found) == s

\* ready that registers nothing
UNIXClient_ready_idle(s) == s

\* UNIXClient.ready, the handler of the Ready event
UNIXClient_ready(s) ==
    IF s.poller # "none" /\ s.connected THEN addReader(s, s.sock) ELSE s

\* _on_started that does not look whether the client has a poller
Client_on_started_again(s) == fire(SetPoller(s, "default"), <<"Ready">>)

Client_on_started(s) ==
    IF s.poller = "none" THEN fire(SetPoller(s, "default"), <<"Ready">>)
    ELSE s

(***************************************************************************)
(* The client as a state machine.                                          *)
(***************************************************************************)
\* the client's state as a record, with nothing fired yet by this handler
CS ==
    [poller |-> c_poller, sock |-> c_sock,
     connected |-> c_connected, buffer |-> c_buffer, closeflag |-> c_closeflag,
     sent |-> c_sent, written |-> c_written, envok |-> c_envok,
     open |-> os_open, readers |-> p_readers, writers |-> p_writers,
     fired |-> <<>>, rmlog |-> <<>>, how |-> "none", shut |-> {}, shutfail |-> {}]

SetClient(t) ==
    /\ c_poller' = t.poller
    /\ c_sock' = t.sock
    /\ c_connected' = t.connected
    /\ c_buffer' = t.buffer
    /\ c_closeflag' = t.closeflag
    /\ c_sent' = t.sent
    /\ c_written' = t.written
    /\ c_envok' = t.envok
    /\ os_open' = t.open
    /\ p_readers' = t.readers
    /\ p_writers' = t.writers
    /\ fired' = t.fired
    /\ rmlog' = t.rmlog
    /\ q_readers' = q_readers \cup t.readers
    /\ q_writers' = q_writers \cup t.writers
    /\ UNCHANGED <<kind, svars, pvars, tvars>>

\* what send can do with data on socket k
SendOutcomes(open, k, data) ==
    IF k \notin open THEN {<<"err", EBADF>>}
    ELSE {<<"ok", n>> : n \in 0..Len(data)}
         \cup {<<"err", e>> : e \in {EWOULDBLOCK, EINTR, ENOBUFS, EPIPE, ENOTCONN, ECONNRESET}}

\* what recv can do on socket k
RecvOutcomes(open, k) ==
    IF k \notin open THEN {<<"err", EBADF>>}
    ELSE {<<"data", d>> : d \in RecvData} \cup {<<"eof">>}
         \cup {<<"err", e>> : e \in {EWOULDBLOCK, EINTR, EPIPE, ENOTCONN, ECONNRESET}}

\* what connect can do on socket k
ConnectOutcomes(open, k) ==
    IF k \notin open THEN {EBADF}
    ELSE {"ok", EISCONN, EWOULDBLOCK, EINPROGRESS, EALREADY, EINTR, ECONNREFUSED, EINVAL}

\* what connect_ex can do on a socket just created
ConnectExOutcomes == {"ok", EINPROGRESS, EINTR, ECONNREFUSED}

(***************************************************************************)
(* The poller raises _read, _write and _disconnect for the sockets that    *)
(* are registered with it; the events are queued and delivered later, so   *)
(* an event may reach its handler after a handler has removed the interest *)
(* (removeWriter, discard).  A readiness event for a socket is delivered   *)
(* only if the socket is or has been registered for it.                    *)
(***************************************************************************)
\* no handler has run yet
InitEnv ==
    /\ os_open = {0}
    /\ p_readers = {}
    /\ p_writers = {}
    /\ q_readers = {}
    /\ q_writers = {}
    /\ fired = <<>>
    /\ rmlog = <<>>
    /\ op = [name |-> "init", sock |-> 0, res |-> <<>>, exc |-> FALSE, shuterr |-> {}]

\* the handles a server can be given by accept()
Handles == 1..(IF MaxPeers > MaxHandles THEN MaxPeers ELSE MaxHandles)

\* Server.__init__ (the listening socket is socket 0)
InitServerVars ==
    /\ s_poller = "none"
    /\ s_sock = 0
    /\ s_clients = <<>>
    /\ s_closeq = <<>>
    /\ s_buffers = <<>>
    /\ s_accepted = 0
    /\ s_sent = [h \in Handles |-> <<>>]
    /\ s_written = [h \in Handles |-> <<>>]
    /\ s_envok = [h \in Handles |-> TRUE]
    /\ u_calls = <<>>
    /\ u_written = <<>>
    /\ u_envok = TRUE

\* Pipe(): the two ends are made connected, on the sockets 0 and 1
InitPipeVars ==
    /\ ends = [e \in {0, 1} |->
                  [poller |-> "none", connected |-> TRUE, buffer |-> <<>>,
                   closeflag |-> FALSE, nwritten |-> 0]]
    /\ wire = [e \in {0, 1} |-> <<>>]

\* no Timer is made
InitTimerVars ==
    /\ now = 0
    /\ timer = [expiry |-> 0, interval |-> 0, persist |-> FALSE,
                registered |-> FALSE, pending |-> FALSE, due |-> 0, fires |-> <<>>]

\* Client.__init__ (the client's socket is socket 0)
InitClientVars ==
    /\ c_poller = "none"
    /\ c_sock = 0
    /\ c_connected = FALSE
    /\ c_buffer = <<>>
    /\ c_closeflag = FALSE
    /\ c_sent = <<>>
    /\ c_written = <<>>
    /\ c_envok = TRUE

InitClient ==
    /\ InitEnv
    /\ InitServerVars
    /\ kind \in {"TCPClient", "UNIXClient"}
    /\ InitClientVars
    /\ InitPipeVars
    /\ InitTimerVars

\* a registered event reaches the client
ClientRegistered ==
    \E comp \in BOOLEAN, found \in BOOLEAN :
       LET t == IF kind = "UNIXClient" THEN UNIXClient_on_registered(CS, comp, found)
                ELSE Client_on_registered(CS, comp, found)
       IN /\ SetClient(t)
          /\ op' = [name |-> "registered", sock |-> c_sock, res |-> t.how, exc |-> FALSE, shuterr |-> {}]

\* a Ready event reaches the ready handler of a UNIX client
ClientReady ==
    /\ kind = "UNIXClient"
    /\ SetClient(UNIXClient_ready(CS))
    /\ op' = [name |-> "ready", sock |-> c_sock, res |-> <<>>, exc |-> FALSE, shuterr |-> {}]

\* a started event reaches the client
ClientStarted ==
    LET t == Client_on_started(CS)
    IN /\ SetClient(t)
       /\ op' = [name |-> "started", sock |-> c_sock, res |-> t.how, exc |-> FALSE, shuterr |-> {}]

\* the application calls connect
ClientConnect ==
    /\ c_poller # "none"
    /\ IF kind = "TCPClient"
       THEN \E r1 \in ConnectOutcomes(os_open, c_sock), r2 \in ConnectExOutcomes :
               /\ r1 \in {EBADF, EINVAL} => c_sock < MaxSocks
               /\ r1 \notin {EBADF, EINVAL} => r2 = "ok"
               /\ SetClient(TCPClient_connect(CS, r1, r2))
               /\ op' = [name |-> "connect", sock |-> c_sock, res |-> <<r1, r2>>, exc |-> FALSE, shuterr |-> {}]
       ELSE \E r \in ConnectOutcomes(os_open, c_sock) :
               /\ SetClient(UNIXClient_connect(CS, r))
               /\ op' = [name |-> "connect", sock |-> c_sock, res |-> <<r, "ok">>, exc |-> FALSE, shuterr |-> {}]

\* the application calls write(data)
ClientWrite ==
    /\ c_poller # "none"
    /\ Len(c_buffer) < MaxQueue
    /\ \E n \in 0..MaxChunkLen :
          /\ Len(c_written) + n <= MaxStream
          /\ LET data == Chunk(Len(c_written), n)
             IN  SetClient(Client_write(Written(CS, data), data))
    /\ op' = [name |-> "write", sock |-> c_sock, res |-> <<>>, exc |-> FALSE, shuterr |-> {}]

\* the application calls close()
ClientClose ==
    /\ c_poller # "none"
    /\ \E bad \in SUBSET {c_sock} :
          LET t == Client_close(WithShutdown(CS, bad))
          IN /\ bad \subseteq t.shut
             /\ SetClient(t)
             /\ op' = [name |-> "close", sock |-> c_sock, res |-> <<>>,
                       exc |-> FALSE, shuterr |-> bad]

\* a _read event is delivered
ClientOnRead ==
    /\ q_readers # {}
    /\ \E r \in RecvOutcomes(os_open, c_sock), bad \in SUBSET {c_sock} :
          LET t == Client_on_read(WithShutdown(Failed(CS, r[1] = "err"), bad), r)
          IN /\ bad \subseteq t.shut
             /\ SetClient(t)
             /\ op' = [name |-> "_read", sock |-> c_sock, res |-> r, exc |-> FALSE, shuterr |-> bad]

\* a _write event is delivered
ClientOnWrite ==
    /\ q_writers # {}
    /\ \E r \in IF c_buffer = <<>> THEN {<<"none">>}
                ELSE SendOutcomes(os_open, c_sock, Head(c_buffer)),
          bad \in SUBSET {c_sock} :
          LET t == Client_on_write(WithShutdown(Failed(CS, r[1] = "err"), bad), r)
          IN /\ bad \subseteq t.shut
             /\ SetClient(t)
             /\ op' = [name |-> "_write", sock |-> c_sock, res |-> r, exc |-> FALSE, shuterr |-> bad]

\* a _disconnect event is delivered
ClientOnDisconnect ==
    /\ q_readers \cup q_writers # {}
    /\ \E bad \in SUBSET {c_sock} :
          LET t == Client_on_disconnect(WithShutdown(Failed(CS, TRUE), bad))
          IN /\ bad \subseteq t.shut
             /\ SetClient(t)
             /\ op' = [name |-> "_disconnect", sock |-> c_sock, res |-> <<>>, exc |-> FALSE,
                       shuterr |-> bad]

NextClient ==
    \/ ClientRegistered
    \/ ClientReady
    \/ ClientStarted
    \/ ClientConnect
    \/ ClientWrite
    \/ ClientClose
    \/ ClientOnRead
    \/ ClientOnWrite
    \/ ClientOnDisconnect

SpecClient == InitClient /\ [][NextClient]_vars

(***************************************************************************)
(* Server (TCPServer, UNIXServer)                                          *)
(***************************************************************************)
\* history: socket h has accepted these bytes (kept while s_envok[h])
SentOn(s, h, bytes) == IF s.envok[h] THEN [s EXCEPT !.sent[h] = @ \o bytes] ELSE s

\* history: the application has written these bytes to h
WrittenOn(s, h, bytes) == IF s.envok[h] THEN [s EXCEPT !.written[h] = @ \o bytes] ELSE s

\* history: h leaves the case of full and partial sends on an accepted handle (a
\* send or a recv on it fails, a _disconnect comes for it, the application
\* writes to it when it is no connection of the server)
FailedOn(s, h, failed) ==
    IF h \in DOMAIN s.envok /\ failed
    THEN [s EXCEPT !.envok[h] = FALSE, !.sent[h] = <<>>, !.written[h] = <<>>]
    ELSE s

\* None, as the value of Server._sock and of the sock argument of close
None == -1

\* x in list
In(x, list) == \E i \in 1..Len(list) : list[i] = x

\* list.remove(x): the list without the first x
Remove(list, x) ==
    LET i == CHOOSE j \in 1..Len(list) :
                 list[j] = x /\ \A l \in 1..(j - 1) : list[l] # x
    IN  SubSeq(list, 1, i - 1) \o SubSeq(list, i + 1, Len(list))

\* self._buffers[k], read: a defaultdict(deque) makes the key on lookup
Touch(s, k) ==
    IF k \in DOMAIN s.buffers THEN s
    ELSE [s EXCEPT !.buffers = [x \in DOMAIN @ \cup {k} |->
                                   IF x = k THEN <<>> ELSE @[x]]]

\* del self._buffers[k]
Del(s, k) ==
    [s EXCEPT !.buffers = [x \in DOMAIN @ \ {k} |-> @[x]]]

\* _close that does not look whether sock is a socket of the server
Server__close_again(s, sock) ==
    IF sock = None THEN s
    ELSE LET a == discard(s, sock)
             b == IF sock \in DOMAIN a.buffers THEN Del(a, sock) ELSE a
             c == IF In(sock, b.clients)
                  THEN [b EXCEPT !.clients = Remove(@, sock)]
                  ELSE [b EXCEPT !.sock = None]
         IN  fire(SockClose(c, sock), <<"Disconnect", sock>>)

Server__close(s, sock) ==
    IF sock = None THEN s
    ELSE IF sock # s.sock /\ ~In(sock, s.clients) THEN s
    ELSE LET a == discard(s, sock)
             b == IF sock \in DOMAIN a.buffers THEN Del(a, sock) ELSE a
             c == IF In(sock, b.clients)
                  THEN [b EXCEPT !.clients = Remove(@, sock)]
                  ELSE [b EXCEPT !.sock = None]
         IN  fire(SockClose(c, sock), <<"Disconnect", sock>>)

Server_close_one_now(s, sock) == Server__close(Touch(s, sock), sock)

\* the body of the loop of close, for one sock
Server_close_one(s, sock) ==
    LET t == Touch(s, sock)
    IN  IF t.buffers[sock] = <<>> THEN Server__close(t, sock)
        ELSE IF ~In(sock, t.closeq) THEN [t EXCEPT !.closeq = Append(@, sock)]
        ELSE t

RECURSIVE Server_close_loop(_, _)
Server_close_loop(s, socks) ==
    IF socks = <<>> THEN s
    ELSE Server_close_loop(Server_close_one(s, Head(socks)), Tail(socks))

Server_close_every(s, sock) ==
    fire(Server_close_loop(s, <<s.sock>> \o s.clients), <<"Closed">>)

Server_close(s, sock) ==
    LET socks == IF sock = None THEN <<s.sock>> \o s.clients ELSE <<sock>>
        t == Server_close_loop(s, socks)
    IN  IF sock = None THEN fire(t, <<"Closed">>) ELSE t

\* r is what recv did, <<"none">> when recv is not called
Server__read(s, sock, r) ==
    IF ~In(sock, s.clients) THEN s
    ELSE IF r[1] = "data" THEN fire(s, <<"Read", sock, r[2]>>)
    ELSE IF r[1] = "eof" THEN Server_close(s, sock)
    ELSE IF r[2] = EWOULDBLOCK THEN s
    ELSE Server__close(fire(s, <<"Error", sock, r[2]>>), sock)

\* self._buffers[sock].appendleft(data)
AppendLeft(s, sock, data) ==
    LET t == Touch(s, sock)
    IN  [t EXCEPT !.buffers[sock] = <<data>> \o @]

\* r is what send did, <<"none">> when send is not called
Server__write(s, sock, data, r) ==
    IF ~In(sock, s.clients) THEN s
    ELSE IF r[1] = "ok"
    THEN LET t == SentOn(s, sock, SubSeq(data, 1, r[2]))
         IN  IF r[2] < Len(data)
             THEN AppendLeft(t, sock, SubSeq(data, r[2] + 1, Len(data)))
             ELSE t
    ELSE IF r[2] \notin {EINTR, EWOULDBLOCK, ENOBUFS}
    THEN Server__close(fire(s, <<"Error", sock, r[2]>>), sock)
    ELSE AppendLeft(s, sock, data)

Server_write(s, sock, data) ==
    LET a == IF ~isWriting(s, sock) THEN addWriter(s, sock) ELSE s
        b == Touch(a, sock)
    IN  [b EXCEPT !.buffers[sock] = Append(@, data)]

RECURSIVE Server_broadcast_loop(_, _, _)
Server_broadcast_loop(s, socks, data) ==
    IF socks = <<>> THEN s
    ELSE Server_broadcast_loop(Server_write(s, Head(socks), data), Tail(socks), data)

Server_broadcast_first(s, data) ==
    IF s.clients = <<>> THEN s ELSE Server_write(s, Head(s.clients), data)

Server_broadcast(s, data) == Server_broadcast_loop(s, s.clients, data)

\* the codes of _accept without ENFILE
AcceptTransient_noENFILE ==
    {EWOULDBLOCK, EAGAIN, EPERM, EMFILE, ENOBUFS, ENOMEM, ECONNABORTED}

\* the accept errors after which _accept returns
AcceptTransient ==
    {EWOULDBLOCK, EAGAIN, EPERM, EMFILE, ENOBUFS, ENFILE, ENOMEM, ECONNABORTED}

\* _accept that takes the connection and fires no Connect
Server__accept_quiet(s, r) ==
    IF r[1] = "err"
    THEN IF r[2] \in AcceptTransient THEN s ELSE [s EXCEPT !.how = "raise"]
    ELSE [addReader(s, r[2]) EXCEPT !.clients = Append(@, r[2]),
                                    !.open = @ \cup {r[2]},
                                    !.accepted = r[2]]

\* r is what accept did: <<"ok", newsock>> or <<"err", e>>; any other error is
\* raised again and leaves the handler (how = "raise")
Server__accept(s, r) ==
    IF r[1] = "err"
    THEN IF r[2] \in AcceptTransient THEN s ELSE [s EXCEPT !.how = "raise"]
    ELSE fire([addReader(s, r[2]) EXCEPT !.clients = Append(@, r[2]),
                                         !.open = @ \cup {r[2]},
                                         !.accepted = r[2]],
              <<"Connect", r[2]>>)

Server_on_disconnect(s, sock) == Server__close(s, sock)

Server_on_read(s, sock, r) ==
    IF sock = s.sock THEN Server__accept(s, r) ELSE Server__read(s, sock, r)

Server_on_write(s, sock, r) ==
    LET a == Touch(s, sock)
        b == IF a.buffers[sock] # <<>>
             THEN Server__write([a EXCEPT !.buffers[sock] = Tail(@)],
                                sock, Head(a.buffers[sock]), r)
             ELSE a
        c == Touch(b, sock)
    IN  IF c.buffers[sock] = <<>>
        THEN IF In(sock, c.closeq)
             THEN Server__close([c EXCEPT !.closeq = Remove(@, sock)], sock)
             ELSE IF isWriting(c, sock) THEN removeWriter(c, sock)
             ELSE c
        ELSE c

Server_on_registered(s, comp, found) ==
    IF s.poller # "none" THEN s
    ELSE IF comp
    THEN fire(addReader(SetPoller(s, "component"), s.sock), <<"Ready">>)
    ELSE IF found
    THEN fire(addReader(SetPoller(s, "found"), s.sock), <<"Ready">>)
    ELSE fire(addReader(SetPoller(s, "default"), s.sock), <<"Ready">>)

Server_on_started(s) ==
    IF s.poller = "none"
    THEN fire(addReader(SetPoller(s, "default"), s.sock), <<"Ready">>)
    ELSE s

(***************************************************************************)
(* The server as a state machine.                                          *)
(***************************************************************************)
SS ==
    [poller |-> s_poller, sock |-> s_sock, clients |-> s_clients,
     closeq |-> s_closeq, buffers |-> s_buffers, accepted |-> s_accepted,
     sent |-> s_sent, written |-> s_written, envok |-> s_envok,
     calls |-> u_calls, dwritten |-> u_written, denvok |-> u_envok,
     open |-> os_open, readers |-> p_readers, writers |-> p_writers,
     fired |-> <<>>, rmlog |-> <<>>, how |-> "none", shut |-> {}, shutfail |-> {}]

SetServer(t) ==
    /\ s_poller' = t.poller
    /\ s_sock' = t.sock
    /\ s_clients' = t.clients
    /\ s_closeq' = t.closeq
    /\ s_buffers' = t.buffers
    /\ s_accepted' = t.accepted
    /\ s_sent' = t.sent
    /\ s_written' = t.written
    /\ s_envok' = t.envok
    /\ u_calls' = t.calls
    /\ u_written' = t.dwritten
    /\ u_envok' = t.denvok
    /\ os_open' = t.open
    /\ p_readers' = t.readers
    /\ p_writers' = t.writers
    /\ fired' = t.fired
    /\ rmlog' = t.rmlog
    /\ q_readers' = q_readers \cup t.readers
    /\ q_writers' = q_writers \cup t.writers
    /\ UNCHANGED <<kind, cvars, pvars, tvars>>

\* the server with several connections runs where the OS calls on its
\* sockets do not fail: accept, recv, send and shutdown succeed
Calm == kind = "ServerMany"

\* the outcomes of an OS call that this server can meet
Met(R) == IF Calm THEN {r \in R : r[1] # "err"} ELSE R

\* the sets of sockets whose shutdown() can raise
ShutdownFails(S) == IF Calm THEN {{}} ELSE SUBSET S

\* the connections the peers make
Backlog == IF Calm THEN MaxPeers ELSE MaxHandles

\* what accept can do: the next connection, or an error
AcceptOutcomes ==
    (IF s_accepted < Backlog THEN {<<"ok", s_accepted + 1>>} ELSE {})
    \cup {<<"err", e>> : e \in {EWOULDBLOCK, EAGAIN, EPERM, EMFILE, ENOBUFS, ENFILE,
                                ENOMEM, ECONNABORTED, EINVAL}}

\* the sockets the application can name: the handles it was given by Connect
Known == 1..s_accepted

RECURSIVE Queued(_)
\* the chunks waiting in the buffers of these sockets
Queued(S) ==
    IF S = {} THEN 0
    ELSE LET k == CHOOSE x \in S : TRUE IN Len(s_buffers[k]) + Queued(S \ {k})

RECURSIVE WrittenTo(_)
\* the bytes written to these handles
WrittenTo(S) ==
    IF S = {} THEN 0
    ELSE LET h == CHOOSE x \in S : TRUE IN Len(s_written[h]) + WrittenTo(S \ {h})

InitServer ==
    /\ InitEnv
    /\ InitServerVars
    /\ InitClientVars
    /\ InitPipeVars
    /\ InitTimerVars
    /\ kind = "Server"

ServerRegistered ==
    \E comp \in BOOLEAN, found \in BOOLEAN :
       LET t == Server_on_registered(SS, comp, found)
       IN /\ SetServer(t)
          /\ op' = [name |-> "registered", sock |-> None, res |-> t.how, exc |-> FALSE, shuterr |-> {}]

ServerStarted ==
    LET t == Server_on_started(SS)
    IN /\ SetServer(t)
       /\ op' = [name |-> "started", sock |-> None, res |-> t.how, exc |-> FALSE, shuterr |-> {}]

\* the application calls write(sock, data)
ServerWrite ==
    /\ s_poller # "none"
    /\ \E h \in Known, n \in 0..MaxChunkLen :
          /\ Queued(DOMAIN s_buffers) < MaxQueue
          /\ WrittenTo(Handles) + n <= MaxStream
          /\ LET data == Chunk(Len(s_written[h]), n)
                 t == WrittenOn(FailedOn(SS, h, ~In(h, s_clients)), h, data)
             IN  SetServer(Server_write(t, h, data))
          /\ op' = [name |-> "write", sock |-> h, res |-> <<>>, exc |-> FALSE, shuterr |-> {}]

\* the application calls broadcast(data)
ServerBroadcast ==
    /\ s_poller # "none"
    /\ \E n \in 0..MaxChunkLen :
          /\ Queued(DOMAIN s_buffers) + Len(s_clients) <= MaxQueue
          /\ WrittenTo(Handles) + n * Len(s_clients) <= MaxStream
          /\ \A i \in 1..Len(s_clients) :
                Len(s_written[s_clients[i]]) = Len(s_written[s_clients[1]])
          /\ LET data == IF s_clients = <<>> THEN Chunk(0, n)
                         ELSE Chunk(Len(s_written[s_clients[1]]), n)
                 t == [SS EXCEPT !.written =
                          [h \in DOMAIN @ |->
                              IF In(h, s_clients) /\ s_envok[h]
                              THEN @[h] \o data ELSE @[h]]]
             IN  SetServer(Server_broadcast(t, data))
          /\ op' = [name |-> "broadcast", sock |-> None, res |-> <<>>, exc |-> FALSE, shuterr |-> {}]

\* the application calls close(sock), or close()
ServerClose ==
    /\ s_poller # "none"
    /\ \E k \in Known \cup {None}, bad \in ShutdownFails(0..s_accepted) :
          LET t == Server_close(WithShutdown(SS, bad), k)
          IN /\ bad \subseteq t.shut
             /\ SetServer(t)
             /\ op' = [name |-> "close", sock |-> k, res |-> <<>>,
                       exc |-> FALSE, shuterr |-> bad]

\* a _read event for socket k is delivered
ServerOnRead ==
    \E k \in q_readers :
       \E r \in IF k = s_sock THEN Met(AcceptOutcomes)
                ELSE IF In(k, s_clients) THEN Met(RecvOutcomes(os_open, k))
                ELSE {<<"none">>},
          bad \in ShutdownFails({k}) :
          LET t == Server_on_read(WithShutdown(FailedOn(SS, k, r[1] = "err"), bad), k, r)
          IN /\ bad \subseteq t.shut
             /\ SetServer(t)
             /\ op' = [name |-> "_read", sock |-> k, res |-> r, exc |-> t.how = "raise",
                       shuterr |-> bad]

\* a _write event for socket k is delivered
ServerOnWrite ==
    \E k \in q_writers :
       \E r \in IF In(k, s_clients) /\ k \in DOMAIN s_buffers /\ s_buffers[k] # <<>>
                THEN Met(SendOutcomes(os_open, k, Head(s_buffers[k])))
                ELSE {<<"none">>},
          bad \in ShutdownFails({k}) :
          LET t == Server_on_write(WithShutdown(FailedOn(SS, k, r[1] = "err"), bad), k, r)
          IN /\ bad \subseteq t.shut
             /\ SetServer(t)
             /\ op' = [name |-> "_write", sock |-> k, res |-> r, exc |-> FALSE, shuterr |-> bad]

\* a _disconnect event for socket k is delivered
ServerOnDisconnect ==
    \E k \in q_readers \cup q_writers :
       \E bad \in ShutdownFails({k}) :
          LET t == Server_on_disconnect(WithShutdown(FailedOn(SS, k, TRUE), bad), k)
          IN /\ bad \subseteq t.shut
             /\ SetServer(t)
             /\ op' = [name |-> "_disconnect", sock |-> k, res |-> <<>>, exc |-> FALSE,
                       shuterr |-> bad]

NextServer ==
    \/ ServerRegistered
    \/ ServerStarted
    \/ ServerWrite
    \/ ServerBroadcast
    \/ ServerClose
    \/ ServerOnRead
    \/ ServerOnWrite
    \/ ServerOnDisconnect

SpecServer == InitServer /\ [][NextServer]_vars

(***************************************************************************)
(* A server with several connections, whose OS calls do not fail.          *)
(***************************************************************************)
InitServerMany ==
    /\ InitEnv
    /\ InitServerVars
    /\ InitClientVars
    /\ InitPipeVars
    /\ InitTimerVars
    /\ kind = "ServerMany"

\* a server of either sort
InitServers == InitServer \/ InitServerMany

SpecServers == InitServers /\ [][NextServer]_vars

(***************************************************************************)
(* UDPServer (a Server: it has the fields and the registered and started   *)
(* handlers of Server, and overrides the rest)                             *)
(***************************************************************************)
\* the peers' addresses, as (host, port)
Addresses == {<<"p", 1>>, <<"q", 1>>}

\* the i-th datagram the application writes holds the byte i
Dgram(i) == <<i>>

\* history: sendto is called with these
Called(s, address, data) == [s EXCEPT !.calls = Append(@, <<address, data>>)]

\* history: the application gives these to write
WrittenDgram(s, address, data) == [s EXCEPT !.dwritten = Append(@, <<address, data>>)]

\* history: the buffer that _close deletes holds a datagram
Dropped(s, sock) ==
    IF sock \in DOMAIN s.buffers /\ s.buffers[sock] # <<>>
    THEN [s EXCEPT !.denvok = FALSE] ELSE s

\* shutdown and close are tried one after the other, each in its own try
UDPServer__close(s, sock) ==
    LET a == discard(Dropped(s, sock), sock)
        b == IF sock \in DOMAIN a.buffers THEN Del(a, sock) ELSE a
        c == [b EXCEPT !.shut = @ \cup {sock}, !.open = @ \ {sock}]
    IN  fire(c, <<"Disconnect", sock>>)

UDPServer_close(s) ==
    LET a == Touch(fire(s, <<"Closed">>), s.sock)
    IN  IF a.buffers[a.sock] # <<>> /\ ~In(a.sock, a.closeq)
        THEN [a EXCEPT !.closeq = Append(@, a.sock)]
        ELSE UDPServer__close(a, a.sock)

\* r is what recvfrom did: <<"data", address, data>> or <<"err", e>>
UDPServer__read(s, r) ==
    IF r[1] = "data"
    THEN IF r[3] # <<>> THEN fire(s, <<"Read", r[2], r[3]>>) ELSE s
    ELSE IF r[2] \in {EWOULDBLOCK, EAGAIN} THEN s
    ELSE UDPServer__close(fire(s, <<"Error", s.sock, r[2]>>), s.sock)

\* r is what sendto did: <<"ok", bytes>> or <<"err", e>>
UDPServer__write(s, address, data, r) ==
    LET t == Called(s, address, data)
    IN  IF r[1] = "ok"
        THEN IF r[2] < Len(data)
             THEN AppendLeft(t, t.sock, SubSeq(data, r[2] + 1, Len(data)))
             ELSE t
        ELSE IF r[2] \in {EPIPE, ENOTCONN} THEN UDPServer__close(t, t.sock)
        ELSE fire(t, <<"Error", t.sock, r[2]>>)

UDPServer_write_front(s, address, data) ==
    AppendLeft(IF ~isWriting(s, s.sock) THEN addWriter(s, s.sock) ELSE s,
               s.sock, <<address, data>>)

UDPServer_write(s, address, data) ==
    LET a == IF ~isWriting(s, s.sock) THEN addWriter(s, s.sock) ELSE s
        b == Touch(a, a.sock)
    IN  [b EXCEPT !.buffers[b.sock] = Append(@, <<address, data>>)]

UDPServer_broadcast(s, data, port) == UDPServer_write(s, <<"<broadcast>", port>>, data)

UDPServer_on_disconnect(s, sock) == UDPServer__close(s, sock)

UDPServer_on_read(s, sock, r) == UDPServer__read(s, r)

\* address, data = entry: the assignment takes an entry of two elements
\* apart and raises ValueError for any other (a datagram here holds one byte,
\* so the rest of a datagram never has two elements)
Unpacks(entry) == Len(entry) = 2

\* r is what sendto did, <<"none">> when sendto is not called; when the head
\* entry cannot be taken apart the exception leaves the handler after the
\* popleft (how = "raise")
UDPServer_on_write(s, sock, r) ==
    LET a == Touch(s, s.sock)
        head == Head(a.buffers[a.sock])
        b == IF a.buffers[a.sock] # <<>>
             THEN UDPServer__write([a EXCEPT !.buffers[a.sock] = Tail(@)],
                                   head[1], head[2], r)
             ELSE a
        c == Touch(b, b.sock)
    IN  IF a.buffers[a.sock] # <<>> /\ ~Unpacks(head)
        THEN [a EXCEPT !.buffers[a.sock] = Tail(@), !.how = "raise"]
        ELSE IF c.buffers[c.sock] = <<>>
        THEN IF In(c.sock, c.closeq)
             THEN UDPServer__close([c EXCEPT !.closeq = Remove(@, c.sock)], c.sock)
             ELSE IF isWriting(c, c.sock) THEN removeWriter(c, c.sock)
             ELSE c
        ELSE c

\* what sendto can do with a datagram on socket k: a datagram socket takes a
\* datagram whole or not at all
SendtoOutcomes(open, k, data) ==
    IF k \notin open THEN {<<"err", EBADF>>}
    ELSE {<<"ok", Len(data)>>}
         \cup {<<"err", e>> : e \in {EWOULDBLOCK, EINTR, ENOBUFS, EPIPE, ENOTCONN,
                                     ECONNREFUSED}}

\* what recvfrom can do on socket k (a datagram can be empty)
RecvfromOutcomes(open, k) ==
    IF k \notin open THEN {<<"err", EBADF>>}
    ELSE {<<"data", a, d>> : a \in Addresses, d \in RecvData \cup {<<>>}}
         \cup {<<"err", e>> : e \in {EWOULDBLOCK, EINTR, ECONNREFUSED}}

\* what sendto can do where it may take a part of a datagram, the case
\* UDPServer._write provides for (bytes < len(data))
ShortSendtoOutcomes(open, k, data) ==
    SendtoOutcomes(open, k, data)
    \cup (IF k \in open THEN {<<"ok", n>> : n \in 0..(Len(data) - 1)} ELSE {})

InitUDP ==
    /\ InitEnv
    /\ InitServerVars
    /\ InitClientVars
    /\ InitPipeVars
    /\ InitTimerVars
    /\ kind = "UDPServer"

UDPRegistered ==
    \E comp \in BOOLEAN, found \in BOOLEAN :
       LET t == Server_on_registered(SS, comp, found)
       IN /\ SetServer(t)
          /\ op' = [name |-> "registered", sock |-> None, res |-> t.how, exc |-> FALSE, shuterr |-> {}]

UDPStarted ==
    LET t == Server_on_started(SS)
    IN /\ SetServer(t)
       /\ op' = [name |-> "started", sock |-> None, res |-> t.how, exc |-> FALSE, shuterr |-> {}]

\* the application calls write(address, data)
UDPWrite ==
    /\ s_poller # "none"
    /\ Len(u_written) < MaxDgrams
    /\ Queued(DOMAIN s_buffers) < MaxQueue
    /\ \E address \in Addresses :
          LET data == Dgram(Len(u_written) + 1)
          IN  SetServer(UDPServer_write(WrittenDgram(SS, address, data), address, data))
    /\ op' = [name |-> "write", sock |-> s_sock, res |-> <<>>, exc |-> FALSE, shuterr |-> {}]

\* the application calls broadcast(data, port)
UDPBroadcast ==
    /\ s_poller # "none"
    /\ Len(u_written) < MaxDgrams
    /\ Queued(DOMAIN s_buffers) < MaxQueue
    /\ LET data == Dgram(Len(u_written) + 1)
       IN  SetServer(UDPServer_broadcast(WrittenDgram(SS, <<"<broadcast>", 1>>, data),
                                         data, 1))
    /\ op' = [name |-> "broadcast", sock |-> s_sock, res |-> <<>>, exc |-> FALSE, shuterr |-> {}]

\* the application calls close()
UDPClose ==
    /\ s_poller # "none"
    /\ SetServer(UDPServer_close(SS))
    /\ op' = [name |-> "close", sock |-> s_sock, res |-> <<>>, exc |-> FALSE, shuterr |-> {}]

\* a _read event for socket k is delivered
UDPOnRead ==
    \E k \in q_readers :
       \E r \in RecvfromOutcomes(os_open, s_sock) :
          /\ SetServer(UDPServer_on_read(SS, k, r))
          /\ op' = [name |-> "_read", sock |-> k, res |-> r, exc |-> FALSE, shuterr |-> {}]

\* a _write event for socket k is delivered
UDPOnWrite ==
    \E k \in q_writers :
       \E r \in IF /\ s_sock \in DOMAIN s_buffers /\ s_buffers[s_sock] # <<>>
                   /\ Unpacks(Head(s_buffers[s_sock]))
                THEN IF kind = "UDPServerShort"
                     THEN ShortSendtoOutcomes(os_open, s_sock, Head(s_buffers[s_sock])[2])
                     ELSE SendtoOutcomes(os_open, s_sock, Head(s_buffers[s_sock])[2])
                ELSE {<<"none">>} :
          LET t == UDPServer_on_write(SS, k, r)
          IN  /\ SetServer(t)
              /\ op' = [name |-> "_write", sock |-> k, res |-> r,
                        exc |-> t.how = "raise", shuterr |-> {}]

\* a _disconnect event for socket k is delivered
UDPOnDisconnect ==
    \E k \in q_readers \cup q_writers :
       /\ SetServer(UDPServer_on_disconnect(SS, k))
       /\ op' = [name |-> "_disconnect", sock |-> k, res |-> <<>>, exc |-> FALSE, shuterr |-> {}]

NextUDP ==
    \/ UDPRegistered
    \/ UDPStarted
    \/ UDPWrite
    \/ UDPBroadcast
    \/ UDPClose
    \/ UDPOnRead
    \/ UDPOnWrite
    \/ UDPOnDisconnect

SpecUDP == InitUDP /\ [][NextUDP]_vars

\* a UDPServer whose sendto may take a part of a datagram
InitUDPShort ==
    /\ InitEnv
    /\ InitServerVars
    /\ InitClientVars
    /\ InitPipeVars
    /\ InitTimerVars
    /\ kind = "UDPServerShort"

SpecUDPShort == InitUDPShort /\ [][NextUDP]_vars

(***************************************************************************)
(* Pipe: two UNIXClients on the two sockets of a socketpair, made          *)
(* connected.  The sockets are not blocking: send takes what fits and recv *)
(* gives what is there.                                                    *)
(***************************************************************************)
\* the other end
Peer(e) == 1 - e

\* end e as a client's state record, with nothing fired yet by this handler
PE(e) ==
    [poller |-> ends[e].poller, sock |-> e,
     connected |-> ends[e].connected, buffer |-> ends[e].buffer,
     closeflag |-> ends[e].closeflag,
     sent |-> <<>>, written |-> <<>>, envok |-> FALSE,
     open |-> os_open, readers |-> p_readers, writers |-> p_writers,
     fired |-> <<>>, rmlog |-> <<>>, how |-> "none", shut |-> {}, shutfail |-> {}]

\* n: the bytes given to write in this step
SetEnd(e, t, n) ==
    /\ ends' = [ends EXCEPT ![e] = [poller |-> t.poller, connected |-> t.connected,
                                    buffer |-> t.buffer, closeflag |-> t.closeflag,
                                    nwritten |-> @.nwritten + n]]
    /\ os_open' = t.open
    /\ p_readers' = t.readers
    /\ p_writers' = t.writers
    /\ fired' = t.fired
    /\ rmlog' = t.rmlog
    /\ q_readers' = q_readers \cup t.readers
    /\ q_writers' = q_writers \cup t.writers
    /\ UNCHANGED <<kind, cvars, svars, tvars>>

\* what send does with data on the socket of end e
PipeSend(e, data) ==
    IF e \notin os_open THEN <<"err", EBADF>>
    ELSE IF Peer(e) \notin os_open THEN <<"err", EPIPE>>
    ELSE IF Len(wire[Peer(e)]) >= PipeCap THEN <<"err", EWOULDBLOCK>>
    ELSE LET free == PipeCap - Len(wire[Peer(e)])
         IN  <<"ok", IF Len(data) < free THEN Len(data) ELSE free>>

\* what recv does on the socket of end e (bufsize is more than the pair holds)
PipeRecv(e) ==
    IF e \notin os_open THEN <<"err", EBADF>>
    ELSE IF wire[e] # <<>> THEN <<"data", wire[e]>>
    ELSE IF Peer(e) \notin os_open THEN <<"eof">>
    ELSE <<"err", EWOULDBLOCK>>

\* Pipe(): socketpair(), two UNIXClients, _connected = True on both
InitPipe ==
    /\ kind = "Pipe"
    /\ os_open = {0, 1}
    /\ p_readers = {}
    /\ p_writers = {}
    /\ q_readers = {}
    /\ q_writers = {}
    /\ fired = <<>>
    /\ rmlog = <<>>
    /\ op = [name |-> "init", sock |-> 0, res |-> <<>>, exc |-> FALSE, shuterr |-> {}]
    /\ InitServerVars
    /\ InitClientVars
    /\ InitPipeVars
    /\ InitTimerVars

\* a registered event reaches end e
PipeRegistered ==
    \E e \in {0, 1}, comp \in BOOLEAN, found \in BOOLEAN :
       LET t == UNIXClient_on_registered(PE(e), comp, found)
       IN /\ SetEnd(e, t, 0)
          /\ wire' = wire
          /\ op' = [name |-> "registered", sock |-> e, res |-> t.how, exc |-> FALSE, shuterr |-> {}]

\* a started event reaches end e
PipeStarted ==
    \E e \in {0, 1} :
       LET t == Client_on_started(PE(e))
       IN /\ SetEnd(e, t, 0)
          /\ wire' = wire
          /\ op' = [name |-> "started", sock |-> e, res |-> t.how, exc |-> FALSE, shuterr |-> {}]

\* a Ready event reaches the ready handler of end e
PipeReady ==
    \E e \in {0, 1} :
       /\ SetEnd(e, UNIXClient_ready(PE(e)), 0)
       /\ wire' = wire
       /\ op' = [name |-> "ready", sock |-> e, res |-> <<>>, exc |-> FALSE, shuterr |-> {}]

\* the application calls write(data) on end e
PipeWrite ==
    \E e \in {0, 1}, n \in 0..MaxChunkLen :
       /\ ends[e].poller # "none"
       /\ Len(ends[e].buffer) < MaxQueue
       /\ ends[e].nwritten + n <= MaxPipeStream
       /\ LET t == Client_write(PE(e), Chunk(ends[e].nwritten, n))
          IN  SetEnd(e, t, n)
       /\ wire' = wire
       /\ op' = [name |-> "write", sock |-> e, res |-> <<>>, exc |-> FALSE, shuterr |-> {}]

\* the application calls close() on end e
PipeClose ==
    \E e \in {0, 1} :
       /\ ends[e].poller # "none"
       /\ SetEnd(e, Client_close(PE(e)), 0)
       /\ wire' = wire
       /\ op' = [name |-> "close", sock |-> e, res |-> <<>>, exc |-> FALSE, shuterr |-> {}]

\* a _read event is delivered to end e
PipeOnRead ==
    \E e \in q_readers :
       LET r == PipeRecv(e)
       IN /\ SetEnd(e, Client_on_read(PE(e), r), 0)
          /\ wire' = IF r[1] = "data" THEN [wire EXCEPT ![e] = <<>>] ELSE wire
          /\ op' = [name |-> "_read", sock |-> e, res |-> r, exc |-> FALSE, shuterr |-> {}]

\* a _write event is delivered to end e
PipeOnWrite ==
    \E e \in q_writers :
       LET r == IF ends[e].buffer = <<>> THEN <<"none">>
                ELSE PipeSend(e, Head(ends[e].buffer))
       IN /\ SetEnd(e, Client_on_write(PE(e), r), 0)
          /\ wire' = IF r[1] = "ok"
                     THEN [wire EXCEPT ![Peer(e)] =
                              @ \o SubSeq(Head(ends[e].buffer), 1, r[2])]
                     ELSE wire
          /\ op' = [name |-> "_write", sock |-> e, res |-> r, exc |-> FALSE, shuterr |-> {}]

\* a _disconnect event is delivered to end e
PipeOnDisconnect ==
    \E e \in q_readers \cup q_writers :
       /\ SetEnd(e, Client_on_disconnect(PE(e)), 0)
       /\ wire' = wire
       /\ op' = [name |-> "_disconnect", sock |-> e, res |-> <<>>, exc |-> FALSE,
                 shuterr |-> {}]

NextPipe ==
    \/ PipeRegistered
    \/ PipeStarted
    \/ PipeReady
    \/ PipeWrite
    \/ PipeClose
    \/ PipeOnRead
    \/ PipeOnWrite
    \/ PipeOnDisconnect

SpecPipe == InitPipe /\ [][NextPipe]_vars

(***************************************************************************)
(* Timer (timers.py)                                                       *)
(***************************************************************************)
\* the interval argument: a number of seconds, or a datetime (as the clock's
\* value at that date)
Intervals ==
    {<<"seconds", n>> : n \in 0..MaxInterval} \cup {<<"datetime", d>> : d \in 0..MaxTime}

\* Component.unregister: the unregistration is pending until the manager
\* has taken the component out
unregister(s) == [s EXCEPT !.pending = TRUE]

\* event.reduce_time_left(n)
reduce_time_left(s, n) == [s EXCEPT !.left = n]

\* clock: what time() returns
Timer_reset(s, interval, clock) ==
    LET a == [s EXCEPT !.interval = IF interval[1] = "datetime"
                                    THEN interval[2] - clock
                                    ELSE interval[2]]
    IN  [a EXCEPT !.expiry = clock + a.interval]

Timer__init__(interval, persist, clock) ==
    Timer_reset([expiry |-> None, interval |-> 0, persist |-> persist,
                 pending |-> FALSE, fired |-> <<>>, left |-> None, exc |-> FALSE],
                interval, clock)

\* _on_generate_events without the look at unregister_pending
Timer_on_generate_events_pending(s, clock) ==
    IF s.expiry = None THEN s
    ELSE IF clock >= s.expiry
    THEN LET a == fire(s, <<"event">>)
         IN  IF a.persist THEN [a EXCEPT !.exc = TRUE]
             ELSE reduce_time_left(unregister(a), 0)
    ELSE reduce_time_left(s, s.expiry - clock)

\* self.reset() is called without the interval that reset requires: the call
\* raises TypeError, and the exception leaves the handler (exc)
Timer_on_generate_events(s, clock) ==
    IF s.expiry = None THEN s
    ELSE IF clock >= s.expiry
    THEN IF s.pending THEN s
         ELSE LET a == fire(s, <<"event">>)
              IN  IF a.persist THEN [a EXCEPT !.exc = TRUE]
                  ELSE reduce_time_left(unregister(a), 0)
    ELSE reduce_time_left(s, s.expiry - clock)

\* the timer's state as a record, with nothing fired yet by this handler
TS ==
    [expiry |-> timer.expiry, interval |-> timer.interval, persist |-> timer.persist,
     pending |-> timer.pending, fired |-> <<>>, left |-> None, exc |-> FALSE]

\* the time an interval argument given at the time clock asks for
Due(interval, clock) ==
    IF interval[1] = "datetime" THEN interval[2] ELSE clock + interval[2]

\* due: the time the timer was last asked to fire at
SetTimer(t, due) ==
    /\ timer' = [expiry |-> t.expiry, interval |-> t.interval, persist |-> t.persist,
                 registered |-> timer.registered, pending |-> t.pending,
                 due |-> due,
                 fires |-> IF t.fired # <<>> THEN Append(timer.fires, now)
                           ELSE timer.fires]
    /\ fired' = t.fired
    /\ UNCHANGED <<kind, os_open, p_readers, p_writers, q_readers, q_writers, rmlog,
                   cvars, svars, pvars, now>>

\* Timer(interval, event, persist=...), registered with a manager
InitTimer ==
    /\ kind = "Timer"
    /\ InitEnv
    /\ InitServerVars
    /\ InitClientVars
    /\ InitPipeVars
    /\ now = 0
    /\ \E interval \in Intervals, persist \in BOOLEAN :
          LET t == Timer__init__(interval, persist, now)
          IN  timer = [expiry |-> t.expiry, interval |-> t.interval,
                       persist |-> t.persist, registered |-> TRUE,
                       pending |-> t.pending, due |-> Due(interval, now),
                       fires |-> <<>>]

\* time passes
TimerTick ==
    /\ now < MaxTime
    /\ now' = now + 1
    /\ fired' = <<>>
    /\ op' = [name |-> "tick", sock |-> 0, res |-> <<>>, exc |-> FALSE, shuterr |-> {}]
    /\ UNCHANGED <<kind, os_open, p_readers, p_writers, q_readers, q_writers, rmlog,
                   cvars, svars, pvars, timer>>

\* a generate_events event reaches the timer
TimerGenerateEvents ==
    /\ timer.registered
    /\ Len(timer.fires) < MaxFires
    /\ LET t == Timer_on_generate_events(TS, now)
       IN  /\ SetTimer(t, timer.due)
           /\ op' = [name |-> "generate_events", sock |-> 0, res |-> <<t.left>>,
                     exc |-> t.exc, shuterr |-> {}]

\* the application calls reset(interval)
TimerReset ==
    \E interval \in Intervals :
       /\ SetTimer(Timer_reset(TS, interval, now), Due(interval, now))
       /\ op' = [name |-> "reset", sock |-> 0, res |-> interval, exc |-> FALSE,
                 shuterr |-> {}]

\* the application calls unregister()
TimerUnregister ==
    /\ timer.registered
    /\ SetTimer(unregister(TS), timer.due)
    /\ op' = [name |-> "unregister", sock |-> 0, res |-> <<>>, exc |-> FALSE, shuterr |-> {}]

\* the manager takes the timer out
TimerUnregistered ==
    /\ timer.registered /\ timer.pending
    /\ timer' = [timer EXCEPT !.registered = FALSE]
    /\ fired' = <<>>
    /\ op' = [name |-> "unregistered", sock |-> 0, res |-> <<>>, exc |-> FALSE, shuterr |-> {}]
    /\ UNCHANGED <<kind, os_open, p_readers, p_writers, q_readers, q_writers, rmlog,
                   cvars, svars, pvars, now>>

NextTimer ==
    \/ TimerTick
    \/ TimerGenerateEvents
    \/ TimerReset
    \/ TimerUnregister
    \/ TimerUnregistered

SpecTimer == InitTimer /\ [][NextTimer]_vars

(***************************************************************************)
(* A stream endpoint: a client or a server.                                *)
(***************************************************************************)
InitStream == InitClient \/ InitServer

NextStream ==
    \/ kind \in {"TCPClient", "UNIXClient"} /\ NextClient
    \/ kind = "Server" /\ NextServer

SpecStream == InitStream /\ [][NextStream]_vars

(***************************************************************************)
(* Properties                                                              *)
(***************************************************************************)
IsClient == kind \in {"TCPClient", "UNIXClient"}

\* the write buffer of handle h, empty when the server keeps none for it
BufferOf(h) == IF h \in DOMAIN s_buffers THEN s_buffers[h] ELSE <<>>

\* C1: while no operating-system call has failed on a socket, the bytes the
\* socket has accepted, followed by the bytes waiting in its write buffer, are
\* the bytes the application wrote to it, in the order of the writes: a partial
\* send leaves the unsent rest in front of the later chunks.  For the client
\* socket and for each accepted handle of a server; a handle closed in good
\* order has been sent everything that was written to it.
C1_WriteOrder ==
    /\ IsClient /\ c_envok => c_sent \o Flatten(c_buffer) = c_written
    /\ kind = "Server" =>
          \A h \in 1..s_accepted :
             s_envok[h] =>
                IF In(h, s_clients)
                THEN s_sent[h] \o Flatten(BufferOf(h)) = s_written[h]
                ELSE s_sent[h] = s_written[h]

\* C1: a send has just taken one byte of the chunk <<1, 2>>, and the rest of it
\* waits in front of the chunk written after it
C1_Witness ==
    /\ IsClient /\ c_envok
    /\ op.name = "_write" /\ op.res = <<"ok", 1>>
    /\ c_sent = <<1>>
    /\ c_buffer = << <<2>>, <<3>> >>

\* this step closes the client: it is connected no more, its buffer is
\* dropped, its socket is registered for nothing and has been shut down and
\* closed (it is left open only when shutdown raised)
ClientCloses ==
    /\ c_connected /\ ~c_connected'
    /\ c_buffer' = <<>>
    /\ c_sock \notin p_readers' \cup p_writers'
    /\ c_sock \notin os_open' \/ c_sock \in op'.shuterr

\* this step closes handle h of the server
HandleCloses(h) ==
    /\ In(h, s_clients) /\ ~In(h, s_clients')
    /\ h \notin DOMAIN s_buffers'
    /\ h \notin p_readers' \cup p_writers'
    /\ h \notin os_open' \/ h \in op'.shuterr

\* the last step was a _read or a _write in which the OS call failed, or a
\* _disconnect
OpFailed(o) ==
    \/ o.name = "_disconnect"
    \/ o.name \in {"_read", "_write"} /\ o.res[1] = "err"

\* C2, the client: close() on a connected client with an empty buffer closes
\* the socket and fires Disconnected in the call.  While the buffer is not
\* empty, in the close() call and in every later step in which no OS call
\* fails, the client stays connected, its socket stays open and no
\* Disconnected is fired, except in the _write whose send takes the last of
\* the buffer: that step closes the socket and fires Disconnected.
C2_ClientStep ==
    IsClient /\ c_connected =>
       /\ op'.name = "close" /\ c_buffer = <<>> =>
             /\ ClientCloses
             /\ fired' = << <<"Disconnected">> >>
       /\ c_buffer # <<>> /\ (op'.name = "close" \/ c_closeflag) /\ ~OpFailed(op') =>
             IF /\ op'.name = "_write" /\ Len(c_buffer) = 1
                /\ op'.res = <<"ok", Len(Head(c_buffer))>>
             THEN /\ ClientCloses
                  /\ fired' = << <<"Disconnected">> >>
             ELSE /\ c_connected' /\ c_sock' \in os_open' /\ c_buffer' # <<>>
                  /\ ~In(<<"Disconnected">>, fired')

\* C2, a handle h of the server: the same for close(h), with Disconnect(h)
C2_ServerStep ==
    kind = "Server" =>
       \A h \in 1..s_accepted :
          In(h, s_clients) =>
             /\ op'.name = "close" /\ op'.sock = h /\ BufferOf(h) = <<>> =>
                   /\ HandleCloses(h)
                   /\ fired' = << <<"Disconnect", h>> >>
             /\ /\ BufferOf(h) # <<>>
                /\ (op'.name = "close" /\ op'.sock = h) \/ In(h, s_closeq)
                /\ ~(op'.sock = h /\ OpFailed(op'))
                => IF /\ op'.name = "_write" /\ op'.sock = h /\ Len(BufferOf(h)) = 1
                      /\ op'.res = <<"ok", Len(Head(BufferOf(h)))>>
                   THEN /\ HandleCloses(h)
                        /\ fired' = << <<"Disconnect", h>> >>
                   ELSE /\ In(h, s_clients') /\ h \in os_open'
                        /\ h \in DOMAIN s_buffers' /\ s_buffers'[h] # <<>>
                        /\ ~In(<<"Disconnect", h>>, fired')

\* C2: close with a buffer that is not empty closes nothing and fires nothing
\* until the buffer has been sent; close with an empty buffer closes at once
C2_CloseDrain == [][C2_ClientStep /\ C2_ServerStep]_vars

\* C2: the send that took the last byte of the buffer of a client with close
\* intent has closed the client: everything written was sent before
C2_Witness ==
    /\ IsClient /\ c_envok
    /\ op.name = "_write" /\ op.res[1] = "ok"
    /\ fired = << <<"Disconnected">> >>
    /\ c_sent = c_written /\ Len(c_sent) > 1

\* how many times event e is among the events of list
Count(e, list) == Cardinality({i \in 1..Len(list) : list[i] = e})

\* C3, the client: a step fires Disconnected at most once, and only when it
\* takes the client from connected to not connected; close() on a client that
\* is not connected fires nothing
C3_ClientStep ==
    IsClient =>
       /\ Count(<<"Disconnected">>, fired') <= 1
       /\ In(<<"Disconnected">>, fired') => c_connected /\ ~c_connected'
       /\ op'.name = "close" /\ ~c_connected => fired' = <<>>

\* C3, the server: a step fires Disconnect(h) at most once for a handle h, and
\* only when it takes h out of the set of clients; a handle taken out never
\* comes back; close(h) for a handle that is not in the set fires nothing
C3_ServerStep ==
    kind = "Server" =>
       /\ \A h \in 1..MaxHandles :
             /\ Count(<<"Disconnect", h>>, fired') <= 1
             /\ In(<<"Disconnect", h>>, fired') => In(h, s_clients) /\ ~In(h, s_clients')
             /\ h <= s_accepted /\ ~In(h, s_clients) => ~In(h, s_clients')
       /\ op'.name = "close" /\ op'.sock # None /\ ~In(op'.sock, s_clients)
             => fired' = <<>>

\* C3: each connection gives at most one Disconnected or Disconnect, and
\* closing what is closed already fires nothing
C3_CloseOnce == [][C3_ClientStep /\ C3_ServerStep]_vars

\* C3: close(1) has just been called for handle 1, which the server had closed
\* before, and nothing was fired
C3_Witness ==
    /\ kind = "Server"
    /\ op.name = "close" /\ op.sock = 1
    /\ s_accepted >= 1 /\ ~In(1, s_clients) /\ 1 \notin os_open
    /\ fired = <<>>

\* C4, as claimed: after every handler, the socket of the client is registered
\* for writing exactly when its write buffer is not empty, and so is every
\* handle the server has accepted; and every removeWriter call of the handler was
\* for a socket that was registered for writing
C4_Backpressure ==
    /\ IsClient => (c_sock \in p_writers <=> c_buffer # <<>>)
    /\ kind = "Server" =>
          \A h \in 1..s_accepted : h \in p_writers <=> BufferOf(h) # <<>>
    /\ \A i \in 1..Len(rmlog) : rmlog[i][2]

\* the accept codes the server is to survive: would-block/try-again,
\* permission-denied, too-many-open-files, file-table-full, no-buffer-space,
\* out-of-memory, connection-aborted
C5_Codes == {EWOULDBLOCK, EAGAIN, EPERM, EMFILE, ENFILE, ENOBUFS, ENOMEM, ECONNABORTED}

\* C5: a _read for the listening socket whose accept fails with one of these
\* codes raises nothing, fires nothing, leaves the clients as they are and the
\* listening socket open and registered as it was; a _read for the listening
\* socket whose accept succeeds, after such failures too, appends the new
\* handle to the clients, registers it for reading and fires Connect for it
C5_AcceptStep ==
    kind = "Server" /\ op'.name = "_read" /\ op'.sock = s_sock =>
       /\ op'.res[1] = "err" /\ op'.res[2] \in C5_Codes =>
             /\ ~op'.exc
             /\ fired' = <<>>
             /\ s_clients' = s_clients
             /\ s_sock' = s_sock /\ s_sock \in os_open'
             /\ p_readers' = p_readers
       /\ op'.res[1] = "ok" =>
             /\ ~In(op'.res[2], s_clients)
             /\ s_clients' = Append(s_clients, op'.res[2])
             /\ op'.res[2] \in p_readers' /\ op'.res[2] \in os_open'
             /\ fired' = << <<"Connect", op'.res[2]>> >>
             /\ s_sock' = s_sock

C5_AcceptResilience == [][C5_AcceptStep]_vars

\* C5: accept has just failed with file-table-full on a listening socket that
\* is registered for reading: it still is, and the next _read can accept
C5_Witness ==
    /\ kind = "Server"
    /\ op.name = "_read" /\ op.sock = s_sock /\ op.res = <<"err", ENFILE>>
    /\ ~op.exc
    /\ s_sock \in os_open /\ s_sock \in p_readers
    /\ fired = <<>>

\* what the connect of operation o came to: the answer of connect, or the
\* answer of connect_ex when a TCP client made a new socket
ConnectAnswer(o) ==
    IF kind = "TCPClient" /\ o.res[1] \in {EBADF, EINVAL} THEN o.res[2] ELSE o.res[1]

\* C6: connect of a TCP client that is not connected, refused by the host (the
\* port is closed), fires Error with the code and nothing else, registers no
\* socket for reading and leaves the client not connected
C6_RefusedStep ==
    /\ kind = "TCPClient" /\ ~c_connected
    /\ op'.name = "connect" /\ ConnectAnswer(op') = ECONNREFUSED
    => /\ fired' = << <<"Error", ECONNREFUSED>> >>
       /\ ~c_connected'
       /\ p_readers' = p_readers /\ c_sock' \notin p_readers'

C6_Unreachable == [][C6_RefusedStep]_vars

\* C6: the connect of a TCP client has just been refused
C6_Witness ==
    /\ kind = "TCPClient"
    /\ op.name = "connect" /\ op.res[1] = ECONNREFUSED
    /\ fired = << <<"Error", ECONNREFUSED>> >>
    /\ ~c_connected /\ p_readers = {}

\* C7, as claimed: a connect of a client whose answer is in-progress,
\* already-connected, would-block or interrupted fires no Error, marks the
\* client connected, registers its socket for reading and fires Connected
C7_ProvisionalStep ==
    /\ IsClient /\ op'.name = "connect"
    /\ ConnectAnswer(op') \in {EINPROGRESS, EISCONN, EWOULDBLOCK, EINTR}
    => /\ \A e \in 1..Len(fired') : fired'[e][1] # "Error"
       /\ c_connected'
       /\ c_sock' \in p_readers'
       /\ In(<<"Connected">>, fired')

C7_ProvisionalConnect == [][C7_ProvisionalStep]_vars

\* the state of the client and of its sockets, without the events
ClientCore ==
    <<c_poller, c_sock, c_connected, c_buffer, c_closeflag, os_open, p_readers,
      p_writers>>

\* C8: in a _read of a client, an empty result of recv does what close() does:
\* on a connected client with an empty write buffer it closes the socket and
\* fires Disconnected; with a buffer that is not empty it sets the close flag
\* and changes nothing else and fires nothing.  A result with bytes fires one
\* Read with the bytes and changes nothing; would-block fires nothing and
\* changes nothing.
C8_ReadStep ==
    IsClient /\ op'.name = "_read" =>
       /\ op'.res = <<"eof">> /\ c_connected =>
             IF c_buffer = <<>>
             THEN /\ ClientCloses
                  /\ fired' = << <<"Disconnected">> >>
             ELSE /\ c_closeflag'
                  /\ <<c_poller, c_sock, c_connected, c_buffer, os_open, p_readers,
                       p_writers>>' =
                     <<c_poller, c_sock, c_connected, c_buffer, os_open, p_readers,
                       p_writers>>
                  /\ fired' = <<>>
       /\ op'.res[1] = "data" =>
             /\ fired' = << <<"Read", op'.res[2]>> >>
             /\ ClientCore' = ClientCore
       /\ op'.res = <<"err", EWOULDBLOCK>> =>
             /\ fired' = <<>>
             /\ ClientCore' = ClientCore

C8_ReadPump == [][C8_ReadStep]_vars

\* C8: recv has just answered with no bytes on a connected client with a chunk
\* in its write buffer: the client has only set the close flag
C8_Witness ==
    /\ IsClient
    /\ op.name = "_read" /\ op.res = <<"eof">>
    /\ c_connected /\ c_closeflag /\ c_buffer # <<>>
    /\ c_sock \in os_open /\ c_sock \in p_readers /\ c_sock \in p_writers
    /\ fired = <<>>

\* the last operation was a _read or a _write whose recv or send raised e
IOError(o, e) == o.name \in {"_read", "_write"} /\ o.res = <<"err", e>>

\* no Error event is among the events of list
NoError(list) == \A i \in 1..Len(list) : list[i][1] # "Error"

\* C9, as claimed: when recv or send on a connected client, or on a handle of
\* the server, raises a code that is neither transient (would-block, try-again,
\* interrupted) nor peer teardown (broken-pipe, not-connected), the handler
\* fires Error with the code and closes the socket: buffer dropped, poller
\* interest removed, Disconnected or Disconnect fired
C9_FatalStep ==
    \A e \in {ECONNRESET, ENOBUFS, EBADF} :
       /\ IsClient /\ c_connected /\ IOError(op', e) =>
             /\ In(<<"Error", e>>, fired')
             /\ ClientCloses
             /\ In(<<"Disconnected">>, fired')
       /\ \A h \in 1..MaxHandles :
             kind = "Server" /\ In(h, s_clients) /\ op'.sock = h /\ IOError(op', e) =>
                /\ In(<<"Error", h, e>>, fired')
                /\ HandleCloses(h)
                /\ In(<<"Disconnect", h>>, fired')

C9_FatalErrors == [][C9_FatalStep]_vars

\* C10, as claimed: when recv or send on a connected client, or on a handle of
\* the server, raises broken-pipe or not-connected, the handler closes the
\* socket, fires Disconnected or Disconnect, and fires no Error
C10_TeardownStep ==
    \A e \in {EPIPE, ENOTCONN} :
       /\ IsClient /\ c_connected /\ IOError(op', e) =>
             /\ ClientCloses
             /\ In(<<"Disconnected">>, fired')
             /\ NoError(fired')
       /\ \A h \in 1..MaxHandles :
             kind = "Server" /\ In(h, s_clients) /\ op'.sock = h /\ IOError(op', e) =>
                /\ HandleCloses(h)
                /\ In(<<"Disconnect", h>>, fired')
                /\ NoError(fired')

C10_PeerTeardown == [][C10_TeardownStep]_vars

\* C11, as claimed: when recv or send on a connected client, or on a handle of
\* the server, raises would-block, try-again or interrupted, the handler fires
\* nothing, the socket stays open and connected, with its registrations, and
\* the write buffer is what it was: the chunk that was being sent is its head
C11_TransientStep ==
    \A e \in {EWOULDBLOCK, EAGAIN, EINTR} :
       /\ IsClient /\ c_connected /\ IOError(op', e) =>
             /\ fired' = <<>>
             /\ c_connected' /\ c_sock' = c_sock /\ c_sock \in os_open'
             /\ c_buffer' = c_buffer
             /\ p_readers' = p_readers /\ p_writers' = p_writers
       /\ \A h \in 1..MaxHandles :
             kind = "Server" /\ In(h, s_clients) /\ op'.sock = h /\ IOError(op', e) =>
                /\ fired' = <<>>
                /\ s_clients' = s_clients /\ h \in os_open'
                /\ BufferOf(h)' = BufferOf(h)
                /\ p_readers' = p_readers /\ p_writers' = p_writers

C11_TransientSilent == [][C11_TransientStep]_vars

\* the poller of the endpoint: "none" until it takes one
PollerOf == IF IsClient THEN c_poller ELSE s_poller

\* C12: a step fires Ready exactly once when the endpoint takes its poller in
\* it (from the registered component, from the component tree or by default)
\* and never otherwise; only a registered or a started event makes it take one;
\* once it has one it keeps it: a later registered or started event assigns no
\* poller and fires nothing
C12_PollerStep ==
    /\ PollerOf = "none" /\ PollerOf' # "none" =>
          /\ op'.name \in {"registered", "started"}
          /\ op'.res \in {"component", "found", "default"}
          /\ fired' = << <<"Ready">> >>
    /\ ~(PollerOf = "none" /\ PollerOf' # "none") =>
          Count(<<"Ready">>, fired') = 0
    /\ PollerOf # "none" =>
          /\ PollerOf' = PollerOf
          /\ op'.name \in {"registered", "started"} =>
                op'.res = "none" /\ fired' = <<>>

C12_PollerOnce == [][C12_PollerStep]_vars

\* C12: a started event has just reached an endpoint that had its poller, and
\* nothing was assigned or fired
C12_Witness ==
    /\ PollerOf = "poller"
    /\ op.name = "started" /\ op.res = "none"
    /\ fired = <<>>

IsServer == kind \in {"Server", "ServerMany"}

\* C13: Server.close() with no handle closes the listening socket and every
\* accepted client.  A client whose write buffer is empty is closed in the call
\* (Disconnect(handle) fired once, handle removed from the client set); a
\* client whose buffer is not empty stays open with its buffer, is put in the
\* pending-close list and fires no Disconnect in the call.  Closed() is fired
\* once, as the last event of the call.  A client that is pending close with a
\* non-empty buffer is closed, short of a failure on it, only by the _write
\* that sends the last of its buffer, and that _write does close it.
C13_CloseAllStep ==
    IsServer =>
       /\ op'.name = "close" /\ op'.sock = None =>
             /\ s_sock' = None
             /\ s_sock # None =>
                   /\ s_sock \notin p_readers' \cup p_writers'
                   /\ s_sock \notin os_open' \/ s_sock \in op'.shuterr
             /\ \A h \in Handles :
                   In(h, s_clients) =>
                      IF BufferOf(h) = <<>>
                      THEN /\ HandleCloses(h)
                           /\ Count(<<"Disconnect", h>>, fired') = 1
                      ELSE /\ In(h, s_clients') /\ In(h, s_closeq')
                           /\ BufferOf(h)' = BufferOf(h)
                           /\ h \in os_open => h \in os_open'
                           /\ Count(<<"Disconnect", h>>, fired') = 0
             /\ fired' # <<>>
             /\ fired'[Len(fired')] = <<"Closed">>
             /\ Count(<<"Closed">>, fired') = 1
             /\ \A i \in 1..Len(fired') : fired'[i][1] \in {"Disconnect", "Closed"}
       /\ \A h \in Handles :
             /\ In(h, s_clients) /\ In(h, s_closeq) /\ BufferOf(h) # <<>>
             /\ ~(op'.sock = h /\ OpFailed(op'))
             => (~In(h, s_clients') <=>
                    /\ op'.name = "_write" /\ op'.sock = h /\ Len(BufferOf(h)) = 1
                    /\ op'.res = <<"ok", Len(Head(BufferOf(h)))>>
                    /\ HandleCloses(h)
                    /\ fired' = << <<"Disconnect", h>> >>)
C13_CloseAll == [][C13_CloseAllStep]_vars

\* a close() that closed one client at once and left the other pending
C13_Witness ==
    /\ kind = "ServerMany" /\ op.name = "close" /\ op.sock = None
    /\ \E h \in Handles, g \in Handles :
          /\ h # g /\ ~In(h, s_clients) /\ Count(<<"Disconnect", h>>, fired) = 1
          /\ In(g, s_clients) /\ In(g, s_closeq) /\ BufferOf(g) # <<>>
          /\ fired[Len(fired)] = <<"Closed">>

\* what the server holds for socket k: membership, buffer, Close Intent,
\* poller registrations and the OS socket
HandleState(k) ==
    [member |-> In(k, s_clients), buffered |-> k \in DOMAIN s_buffers,
     buffer |-> BufferOf(k), closing |-> In(k, s_closeq),
     reader |-> k \in p_readers, writer |-> k \in p_writers,
     open |-> k \in os_open]

\* C14: Server.close(handle) with a specific handle leaves the listening
\* socket and every other handle as they were (membership in the client set,
\* write buffer, Close Intent, poller registrations, OS socket), keeps the
\* order of the other clients, and fires no Closed() and no event of another
\* socket.
C14_CloseFrameStep ==
    \A h \in Handles :
       IsServer /\ op'.name = "close" /\ op'.sock = h =>
          /\ s_sock' = s_sock
          /\ s_sock # None => HandleState(s_sock)' = HandleState(s_sock)
          /\ \A g \in Handles \ {h} : HandleState(g)' = HandleState(g)
          /\ s_clients' = IF In(h, s_clients) /\ ~In(h, s_clients')
                          THEN Remove(s_clients, h) ELSE s_clients
          /\ Count(<<"Closed">>, fired') = 0
          /\ \A i \in 1..Len(fired') : fired'[i] = <<"Disconnect", h>>
C14_CloseFrame == [][C14_CloseFrameStep]_vars

\* close(h) closed h at once while another client had a chunk waiting
C14_Witness ==
    /\ kind = "ServerMany" /\ op.name = "close" /\ op.sock \in Handles
    /\ fired = << <<"Disconnect", op.sock>> >>
    /\ s_sock # None
    /\ \E g \in Handles \ {op.sock} : In(g, s_clients) /\ BufferOf(g) # <<>>

\* C15: Server.broadcast(data) appends the one chunk data to the tail of the
\* write buffer of every handle in the client set at the call and registers
\* each of them for writing; it leaves the client set, the listening socket
\* and every socket outside the client set as they were and fires nothing.  A
\* handle not yet accepted has no buffer, and has none when it is accepted.
C15_BroadcastStep ==
    IsServer =>
       /\ op'.name = "broadcast" =>
             /\ \E n \in 0..MaxChunkLen :
                   \A h \in Handles :
                      In(h, s_clients) =>
                         /\ BufferOf(h)' =
                               Append(BufferOf(h), Chunk(Len(s_written[h]), n))
                         /\ h \in p_writers'
                         /\ HandleState(h)' =
                               [HandleState(h) EXCEPT !.buffer = BufferOf(h)',
                                                      !.buffered = TRUE,
                                                      !.writer = TRUE]
             /\ \A h \in Handles : ~In(h, s_clients) => HandleState(h)' = HandleState(h)
             /\ s_clients' = s_clients /\ s_sock' = s_sock
             /\ s_sock # None => HandleState(s_sock)' = HandleState(s_sock)
             /\ fired' = <<>>
       /\ \A h \in Handles : h > s_accepted' => h \notin DOMAIN s_buffers'
       /\ \A h \in Handles :
             op'.name = "_read" /\ op'.sock = s_sock /\ op'.res = <<"ok", h>> =>
                /\ In(h, s_clients') /\ BufferOf(h)' = <<>>
                /\ h \notin p_writers'
C15_Broadcast == [][C15_BroadcastStep]_vars

\* a broadcast of a non-empty chunk that reached two clients
C15_Witness ==
    /\ kind = "ServerMany" /\ op.name = "broadcast" /\ Len(s_clients) = 2
    /\ \A i \in 1..2 :
          /\ BufferOf(s_clients[i]) # <<>>
          /\ BufferOf(s_clients[i])[Len(BufferOf(s_clients[i]))] # <<>>
          /\ s_clients[i] \in p_writers

IsUDP == kind = "UDPServer"

\* C16: on a UDP endpoint write(address, data) (and broadcast) puts the pair
\* <<address, data>> at the tail of the buffer and calls no sendto; a _write
\* event with a non-empty buffer calls sendto once, with the data and the
\* address of the head pair, and takes that pair off the buffer; no other
\* operation calls sendto.  While _close has dropped no queued datagram, the
\* sendto calls made, followed by the pairs waiting, are the pairs written, in
\* the order of the writes.  The client set stays empty.
C16_AddressingStep ==
    IsUDP =>
       /\ s_clients = <<>> /\ s_clients' = <<>>
       /\ op'.name \in {"write", "broadcast"} =>
             /\ u_written' # <<>>
             /\ BufferOf(s_sock)' = Append(BufferOf(s_sock), u_written'[Len(u_written')])
             /\ u_calls' = u_calls
       /\ op'.name = "_write" =>
             IF BufferOf(s_sock) # <<>>
             THEN /\ u_calls' = Append(u_calls, Head(BufferOf(s_sock)))
                  /\ BufferOf(s_sock)' \in {Tail(BufferOf(s_sock)), <<>>}
             ELSE u_calls' = u_calls
       /\ op'.name # "_write" => u_calls' = u_calls
       /\ u_envok' => u_calls' \o BufferOf(s_sock)' = u_written'
LastDgramSent ==
    /\ op'.name = "_write" /\ Len(BufferOf(s_sock)) = 1
    /\ op'.res = <<"ok", Len(Head(BufferOf(s_sock))[2])>>

\* C17: close() on a UDP endpoint whose buffer is not empty leaves the socket
\* open and registered and the buffer as it is, and fires nothing yet; the
\* _write that sends the last datagram of an endpoint that is closing closes
\* the socket and fires Closed() and Disconnect(socket), once each; no event
\* of the two is fired between the close() and that _write.
C17_UDPCloseStep ==
    IsUDP /\ BufferOf(s_sock) # <<>> /\ s_sock \in os_open =>
       /\ op'.name = "close" =>
             /\ s_sock \in os_open' /\ s_sock \in p_writers'
             /\ BufferOf(s_sock)' = BufferOf(s_sock)
             /\ In(s_sock, s_closeq')
             /\ fired' = <<>>
       /\ In(s_sock, s_closeq) /\ op'.name = "_write" /\ op'.res[1] = "ok" =>
             IF LastDgramSent
             THEN /\ s_sock \notin os_open'
                  /\ Count(<<"Closed">>, fired') = 1
                  /\ Count(<<"Disconnect", s_sock>>, fired') = 1
             ELSE /\ s_sock \in os_open'
                  /\ fired' = <<>>
C17_UDPClose == [][C17_UDPCloseStep]_vars

IsPipe == kind = "Pipe"

\* C18: the two ends of a Pipe are connected from the start, with no connect
\* call.  For each end e with the other end b: the started event gives an end
\* without a poller its poller and fires Ready; ready, on a connected end with
\* a poller, registers its socket for reading; write(x) on an end with an empty
\* buffer queues x and registers the socket for writing; the _write event that
\* finds x alone in the buffer of an end that is not closing, with both
\* sockets open and room for x on the way to b, passes x whole on the way to b, fires nothing and leaves the
\* buffer of e empty; the _read event of an end that finds bytes on the way to
\* it fires Read with exactly these bytes, once.
C18_PipeStep ==
    IsPipe =>
       /\ op.name = "init" => ends[0].connected /\ ends[1].connected
       /\ \A e \in {0, 1} :
             op'.sock = e =>
                /\ op'.name = "started" /\ ends[e].poller = "none" =>
                      /\ ends'[e].poller # "none"
                      /\ fired' = << <<"Ready">> >>
                /\ op'.name = "ready" /\ ends[e].poller # "none" /\ ends[e].connected =>
                      e \in p_readers'
                /\ op'.name = "write" /\ ends[e].buffer = <<>> =>
                      /\ ends'[e].buffer =
                            << Chunk(ends[e].nwritten, ends'[e].nwritten - ends[e].nwritten) >>
                      /\ e \in p_writers'
                      /\ wire' = wire /\ fired' = <<>>
                /\ /\ op'.name = "_write" /\ Len(ends[e].buffer) = 1
                   /\ {0, 1} \subseteq os_open
                   /\ Len(wire[Peer(e)]) + Len(Head(ends[e].buffer)) <= PipeCap
                   /\ Head(ends[e].buffer) # <<>>
                   /\ ~ends[e].closeflag
                   => /\ wire'[Peer(e)] = wire[Peer(e)] \o Head(ends[e].buffer)
                      /\ wire'[e] = wire[e]
                      /\ ends'[e].buffer = <<>>
                      /\ fired' = <<>>
                /\ op'.name = "_read" /\ e \in os_open /\ wire[e] # <<>> =>
                      /\ fired' = << <<"Read", wire[e]>> >>
                      /\ wire'[e] = <<>>
                      /\ wire'[Peer(e)] = wire[Peer(e)]
                      /\ ends'[e] = ends[e]
C18_PipeEndToEnd == [][C18_PipeStep]_vars

\* b has fired Read(x) for the two bytes x that a wrote, and a's buffer is empty
C18_Witness ==
    /\ IsPipe /\ op.name = "_read" /\ op.sock = 1
    /\ fired = << <<"Read", Chunk(0, 2)>> >>
    /\ ends[0].nwritten = 2 /\ ends[0].buffer = <<>>
    /\ ends[0].connected /\ ends[1].connected
    /\ wire = [e \in {0, 1} |-> <<>>]

IsTimer == kind = "Timer"

\* C19: a Timer without persist fires only in generate_events, only its
\* event, only when the clock has reached the time it was set for (the time of
\* its creation or last reset, plus the interval), only when no unregister is
\* pending and only when it has not fired before; the step that fires makes
\* its unregistration pending.  generate_events does fire when the time is
\* reached and no unregister is pending.
C19_TimerOnceStep ==
    IsTimer /\ ~timer.persist =>
       /\ fired' # <<>> =>
             /\ op'.name = "generate_events" /\ ~op'.exc
             /\ fired' = << <<"event">> >>
             /\ now >= timer.due
             /\ ~timer.pending /\ timer'.pending
             /\ timer.fires = <<>>
       /\ op'.name = "generate_events" /\ now >= timer.due /\ ~timer.pending =>
             fired' = << <<"event">> >>
       /\ Len(timer'.fires) <= 1
C19_TimerOnce == [][C19_TimerOnceStep]_vars

\* a timer set for a later time has fired at that time and is unregistering
C19_Witness ==
    /\ IsTimer /\ ~timer.persist /\ op.name = "generate_events"
    /\ fired = << <<"event">> >>
    /\ timer.due >= 2 /\ timer.fires = <<timer.due>>
    /\ timer.pending

\* C20: a Timer with persist, when generate_events finds the expiry reached
\* (and no unregister pending), fires its event, sets the expiry to the clock
\* plus the interval, stays registered with no unregister pending, and the
\* handler returns.
C20_TimerPersistStep ==
    IsTimer /\ timer.persist =>
       /\ op'.name = "generate_events" /\ now >= timer.expiry /\ ~timer.pending =>
             /\ fired' = << <<"event">> >>
             /\ timer'.expiry = now + timer.interval
             /\ timer'.registered /\ ~timer'.pending
             /\ ~op'.exc
C20_TimerPersist == [][C20_TimerPersistStep]_vars

\* the client's socket has been closed and the client has not connected again
ClientIsClosed == IsClient /\ ~c_connected /\ c_sock \notin os_open

\* handle h was accepted and has been closed
HandleIsClosed(h) == IsServer /\ h \in 1..s_accepted /\ ~In(h, s_clients)

\* C21: closed is terminal.  The step that fires Disconnected (Disconnect(h)
\* for a handle of a server), and every later step that is not a connect,
\* leaves the socket with no entry in the write buffer map (the client's
\* buffer empty), outside the server's client set and with no read or write
\* interest registered with the poller.
C21_ClosedTerminalStep ==
    /\ IsClient /\ op'.name # "connect"
       /\ (Count(<<"Disconnected">>, fired') > 0 \/ ClientIsClosed)
       => /\ c_buffer' = <<>>
          /\ c_sock' \notin p_readers' \cup p_writers'
    /\ \A h \in Handles :
          IsServer /\ (Count(<<"Disconnect", h>>, fired') > 0 \/ HandleIsClosed(h))
          => /\ h \notin DOMAIN s_buffers'
             /\ ~In(h, s_clients')
             /\ h \notin p_readers' \cup p_writers'
C21_ClosedTerminal == [][C21_ClosedTerminalStep]_vars

\* C22: Close Intent is recorded only for a socket that is open and has
\* bytes waiting: the client's close flag is set only while its socket is
\* open and its buffer is not empty, and a handle is in the server's
\* pending-close list only while it is in the client set, open, with a
\* non-empty buffer.
C22_ClosingOnlyPending ==
    /\ IsClient /\ c_closeflag => c_sock \in os_open /\ c_buffer # <<>>
    /\ IsServer =>
          \A h \in Handles :
             In(h, s_closeq) => In(h, s_clients) /\ h \in os_open /\ BufferOf(h) # <<>>

\* C23: close() with no handle on a stream server that has no accepted
\* clients fires Closed() and nothing else: no Disconnect for the listening
\* socket.
C23_OnlyClosedStep ==
    IsServer /\ op'.name = "close" /\ op'.sock = None /\ s_clients = <<>> =>
       fired' = << <<"Closed">> >>
C23_OnlyClosed == [][C23_OnlyClosedStep]_vars

\* the events of the kinds names that list holds for socket h
EventsOf(h, names, list) ==
    {i \in 1..Len(list) : list[i][1] \in names /\ list[i][2] = h}

\* C24: on a stream server, for every handle h: Connect(h) is fired by the
\* step that accepts h and by no other, once, as the only event of that step;
\* Read(h), Error(h) and Disconnect(h) are fired only for a handle accepted in
\* an earlier step; Read(h) is fired only while h is in the client set, the
\* step that fires Disconnect(h) takes h out of the client set, and a handle
\* that was closed never comes back into the client set.
C24_HandleOrderStep ==
    IsServer =>
       /\ s_accepted' # s_accepted => s_accepted' = s_accepted + 1
       /\ \A h \in Handles :
             /\ EventsOf(h, {"Connect"}, fired') # {} <=> h > s_accepted /\ h <= s_accepted'
             /\ EventsOf(h, {"Connect"}, fired') # {} =>
                   /\ fired' = << <<"Connect", h>> >>
                   /\ In(h, s_clients')
             /\ EventsOf(h, {"Read", "Error", "Disconnect"}, fired') # {} =>
                   h <= s_accepted
             /\ EventsOf(h, {"Read"}, fired') # {} =>
                   In(h, s_clients) /\ ~HandleIsClosed(h)
             /\ EventsOf(h, {"Disconnect"}, fired') # {} => ~In(h, s_clients')
             /\ HandleIsClosed(h) => ~In(h, s_clients')
             /\ In(h, s_clients) => h <= s_accepted
C24_HandleOrder == [][C24_HandleOrderStep]_vars

\* a _read event delivered for a handle after its Disconnect has fired nothing,
\* while the other handle is still a client
C24_Witness ==
    /\ kind = "ServerMany" /\ op.name = "_read" /\ op.sock \in Handles
    /\ HandleIsClosed(op.sock) /\ fired = <<>>
    /\ \E g \in Handles \ {op.sock} : In(g, s_clients)

\* C25: a _read or a _write event delivered for a socket that has been closed
\* (the client after Disconnected, a handle of a server after its Disconnect)
\* fires no event and leaves the buffers, the Close Intent, the client set
\* and the poller's registrations as they were.
C25_StaleReadinessStep ==
    /\ ClientIsClosed /\ op'.name \in {"_read", "_write"} =>
          /\ fired' = <<>>
          /\ c_buffer' = c_buffer /\ c_closeflag' = c_closeflag
          /\ p_readers' = p_readers /\ p_writers' = p_writers
    /\ \A h \in Handles :
          HandleIsClosed(h) /\ op'.name \in {"_read", "_write"} /\ op'.sock = h =>
             /\ fired' = <<>>
             /\ \A g \in Handles : BufferOf(g)' = BufferOf(g)
             /\ s_closeq' = s_closeq /\ s_clients' = s_clients
             /\ p_readers' = p_readers /\ p_writers' = p_writers
C25_StaleReadiness == [][C25_StaleReadinessStep]_vars

\* C26: every entry of the write buffer of a UDP endpoint is a pair
\* <<address, data>> that the application wrote, also after a sendto that took
\* only a part of a datagram.
C26_BufferShape ==
    kind \in {"UDPServer", "UDPServerShort"} =>
       \A i \in 1..Len(BufferOf(s_sock)) :
          /\ Len(BufferOf(s_sock)[i]) = 2
          /\ \E j \in 1..Len(u_written) : BufferOf(s_sock)[i] = u_written[j]

=============================================================================
